---- MODULE Spec2Model ----
(***************************************************************************)
(* A model of annet's Netbox device-graph builder (BaseNetboxStorage), its *)
(* mesh executor (MeshExecutor) and the interface-change directive         *)
(* (InterfaceChanges).                                                     *)
(*                                                                         *)
(* Five specifications share the module:                                   *)
(*   SpecGraph  make_devices over a three-device CMDB                      *)
(*   SpecConn   make_devices / search_connections, two storage instances   *)
(*   SpecQuery  _load_devices with _hostname_dot_hack and _match_query     *)
(*   SpecIface  InterfaceChanges.__post_init__                             *)
(*   SpecMesh   MeshExecutor.execute_for                                   *)
(* Each specification leaves the other components' variables idle.         *)
(***************************************************************************)
EXTENDS Integers, Sequences, FiniteSets, TLC

VARIABLES
    \* ---- device graph builder ----
    cmdb,        \* what the CMDB holds: [devices, ep]
    made,        \* the list returned by the last make_devices call
    held,        \* a device object the caller kept from an earlier call
    sc,          \* the outcome of the last search_connections call
    \* ---- _load_devices ----
    q_exact,     \* the storage's exact_host_filter
    q_orig,      \* the query list as the caller passed it
    q_query,     \* the query list object (_hostname_dot_hack rewrites it in place)
    q_result,    \* the names of the devices _load_devices returned
    \* ---- InterfaceChanges ----
    ic_args,     \* the fields the directive is constructed from
    ic_result,   \* "none" before construction, then "ok" or the error raised
    \* ---- MeshExecutor.execute_for ----
    pc,              \* where execute_for is
    rules,           \* the rules the current pass's registry lookup returned
    idx,             \* the next rule of `rules` to execute
    neighbor_peers,  \* _execute_direct's dict, in insertion order
    connected_peers, \* _execute_indirect's dict, in insertion order
    global_opts,     \* _execute_globals' accumulator
    result,          \* execute_for's list of peers
    origin,          \* for each peer of `result`, the pass and fqdn it came from
    unresolved,      \* the storage returned no device for an indirect rule
    returned,        \* the MeshExecutionResult, once returned
    calls            \* the registry lookups made and handlers invoked, in order

graphVars == <<cmdb, made, held, sc>>
queryVars == <<q_exact, q_orig, q_query, q_result>>
ifaceVars == <<ic_args, ic_result>>
meshVars == <<pc, rules, idx, neighbor_peers, connected_peers, global_opts,
              result, origin, unresolved, returned, calls>>
vars == <<graphVars, queryVars, ifaceVars, meshVars>>

None == "None"

IdleGraph == cmdb = [devices |-> {}, ep |-> {}] /\ made = <<>> /\ held = <<>> /\ sc = <<>>
IdleQuery == q_exact = FALSE /\ q_orig = <<>> /\ q_query = <<>> /\ q_result = <<>>
IdleIface == ic_args = <<>> /\ ic_result = "none"
IdleMesh ==
    /\ pc = "idle" /\ rules = <<>> /\ idx = 1
    /\ neighbor_peers = <<>> /\ connected_peers = <<>> /\ global_opts = <<>>
    /\ result = <<>> /\ origin = <<>> /\ unresolved = FALSE /\ returned = <<>>
    /\ calls = <<>>

(***************************************************************************)
(* Bounds of the model.                                                    *)
(***************************************************************************)
MaxLinks == 3        \* endpoint references in the three-device CMDB (SpecGraph)
MaxConnLinks == 4    \* endpoint references in the two-device CMDB (SpecConn)

(***************************************************************************)
(* The CMDB inventory.  Interface i belongs to device IfaceOwner[i]; the   *)
(* API returns results ordered by id.                                      *)
(***************************************************************************)
IfaceOwner == <<1, 1, 2, 2, 3>>
IfaceName == <<"eth0", "eth1", "eth2", "eth3", "eth0">>
DeviceName == <<"r1.example.com", "r2.example.com", "r3.example.com">>
AllDevices == 1..Len(DeviceName)
AllIfaces == 1..Len(IfaceOwner)
Storages == {1, 2}

RECURSIVE SortedSeq(_)
SortedSeq(S) ==
    IF S = {} THEN <<>>
    ELSE LET m == CHOOSE x \in S : \A y \in S : x <= y
         IN  <<m>> \o SortedSeq(S \ {m})

RECURSIVE Flatten(_)
Flatten(ss) == IF ss = <<>> THEN <<>> ELSE Head(ss) \o Flatten(Tail(ss))

SeqRange(s) == {s[i] : i \in 1..Len(s)}

\* A connected endpoint is a reference from interface i to interface j of
\* another device.  Each interface's list is served by its own request, so
\* the model does not force the reverse reference to be present.
LinkUniverse(devs) ==
    {p \in AllIfaces \X AllIfaces :
        /\ IfaceOwner[p[1]] \in devs
        /\ IfaceOwner[p[2]] \in devs
        /\ IfaceOwner[p[1]] # IfaceOwner[p[2]]}

Endpoint(j) == [id |-> j, name |-> IfaceName[j], device |-> IfaceOwner[j]]

\* One interface as the API returns it (extend_interface adds no field the
\* graph uses).
ApiInterface(i) ==
    LET remote == SortedSeq({j \in AllIfaces : <<i, j>> \in cmdb.ep})
    IN  [id |-> i,
         name |-> IfaceName[i],
         device |-> IfaceOwner[i],
         connected_endpoints |-> [k \in 1..Len(remote) |-> Endpoint(remote[k])]]

dcim_all_interfaces(device_ids) ==
    LET ids == SortedSeq({i \in AllIfaces : IfaceOwner[i] \in device_ids
                                            /\ IfaceOwner[i] \in cmdb.devices})
    IN  [k \in 1..Len(ids) |-> ApiInterface(ids[k])]

dcim_all_interfaces_by_id(ids) ==
    LET found == SortedSeq({i \in AllIfaces : i \in ids})
    IN  [k \in 1..Len(found) |-> ApiInterface(found[k])]

dcim_all_devices_by_id(ids) == SortedSeq({d \in cmdb.devices : d \in ids})

\* A device object.  neighbours = None (a neighbour, loaded one hop deep) is
\* has_neighbours = FALSE with an empty list.
extend_device(device, interfaces, neighbours, storage) ==
    [id |-> device,
     fqdn |-> DeviceName[device],
     storage |-> storage,
     interfaces |-> interfaces,
     has_neighbours |-> neighbours # <<None>>,
     neighbours |-> IF neighbours = <<None>> THEN <<>> ELSE neighbours]

_load_neighbours(interfaces, storage) ==
    LET endpoints == Flatten([k \in 1..Len(interfaces) |->
                                  interfaces[k].connected_endpoints])
        remote_interfaces_ids == {endpoints[k].id : k \in 1..Len(endpoints)}
        neighbours_ids == {endpoints[k].device : k \in 1..Len(endpoints)}
        remote == dcim_all_interfaces_by_id(remote_interfaces_ids)
        OfDevice(d) == LET Mine(x) == x.device = d IN SelectSeq(remote, Mine)
        found == dcim_all_devices_by_id(neighbours_ids)
    IN  [k \in 1..Len(found) |->
            extend_device(found[k], OfDevice(found[k]), <<None>>, storage)]

\* The dict {x.id: x for x in _load_neighbours(interfaces)}.
NeighbourDict(loaded) ==
    [d \in {loaded[k].id : k \in 1..Len(loaded)} |->
        LET k == CHOOSE i \in 1..Len(loaded) :
                    /\ loaded[i].id = d
                    /\ \A j \in 1..Len(loaded) : loaded[j].id = d => j <= i
        IN  loaded[k]]

\* Loop body of make_devices for one endpoint, without the neighbours_seen
\* test: every endpoint appends its neighbour.
AddEndpointUnseen(st, dev, e, neighbours) ==
    [devs |-> [st.devs EXCEPT ![dev].neighbours = Append(@, neighbours[e.device])],
     seen |-> [st.seen EXCEPT ![dev] = @ \cup {e.device}]]

\* Loop body of make_devices for one endpoint e of an interface of dev.
AddEndpoint(st, dev, e, neighbours) ==
    LET neighbour == neighbours[e.device]
    IN  IF neighbour.id \notin st.seen[dev]
        THEN [devs |-> [st.devs EXCEPT ![dev].neighbours = Append(@, neighbour)],
              seen |-> [st.seen EXCEPT ![dev] = @ \cup {neighbour.id}]]
        ELSE st

RECURSIVE FoldEndpoints(_, _, _, _, _)
FoldEndpoints(st, dev, eps, k, neighbours) ==
    IF k > Len(eps) THEN st
    ELSE FoldEndpoints(AddEndpoint(st, dev, eps[k], neighbours),
                       dev, eps, k + 1, neighbours)

RECURSIVE FoldInterfaces(_, _, _, _)
FoldInterfaces(st, interfaces, k, neighbours) ==
    IF k > Len(interfaces) THEN st
    ELSE LET interface == interfaces[k]
             dev == interface.device
             st1 == [st EXCEPT !.devs[dev].interfaces = Append(@, interface)]
         IN  FoldInterfaces(
                 FoldEndpoints(st1, dev, interface.connected_endpoints, 1, neighbours),
                 interfaces, k + 1, neighbours)

\* make_devices, given the devices _load_devices found (ids, in API order).
make_devices(storage, found) ==
    IF found = <<>> THEN <<>>
    ELSE LET ids == SeqRange(found)
             device_ids == [d \in ids |-> extend_device(d, <<>>, <<>>, storage)]
             interfaces == dcim_all_interfaces(ids)
             neighbours == NeighbourDict(_load_neighbours(interfaces, storage))
             st == FoldInterfaces([devs |-> device_ids, seen |-> [d \in ids |-> {}]],
                                  interfaces, 1, neighbours)
         IN  [k \in 1..Len(found) |-> st.devs[found[k]]]

\* The inner loop of search_connections with the name test dropped: the
\* endpoint is paired with the neighbor's first port.
MatchEndpointAnyPort(local_port, endpoint, neighbor) ==
    IF endpoint.device = neighbor.id /\ neighbor.interfaces # <<>>
    THEN << <<local_port, neighbor.interfaces[1]>> >>
    ELSE <<>>

\* The pair search_connections appends for one endpoint of local_port: the
\* first port of neighbor with the endpoint's name, if the endpoint is on
\* neighbor at all.
MatchEndpoint(local_port, endpoint, neighbor) ==
    IF endpoint.device = neighbor.id
    THEN LET hits == {k \in 1..Len(neighbor.interfaces) :
                         neighbor.interfaces[k].name = endpoint.name}
         IN  IF hits = {} THEN <<>>
             ELSE LET first == CHOOSE k \in hits : \A j \in hits : k <= j
                  IN  << <<local_port, neighbor.interfaces[first]>> >>
    ELSE <<>>

PortConnections(local_port, neighbor) ==
    Flatten([k \in 1..Len(local_port.connected_endpoints) |->
                MatchEndpoint(local_port, local_port.connected_endpoints[k], neighbor)])

\* search_connections with the neighbor's storage left unchecked.
StorageErrorDeviceOnly(self, device, neighbor) ==
    IF device.storage # self THEN "ValueError: device does not belong to this storage"
    ELSE None

\* The two identity checks that open search_connections.
StorageError(self, device, neighbor) ==
    IF device.storage # self THEN "ValueError: device does not belong to this storage"
    ELSE IF neighbor.storage # self
         THEN "ValueError: neighbor does not belong to this storage"
         ELSE None

search_connections(self, device, neighbor) ==
    LET error == StorageError(self, device, neighbor)
    IN  IF error # None
        THEN [on |-> self, device |-> device, neighbor |-> neighbor,
              error |-> error, result |-> <<>>]
        ELSE [on |-> self, device |-> device, neighbor |-> neighbor,
              error |-> None,
              result |-> Flatten([k \in 1..Len(device.interfaces) |->
                                     PortConnections(device.interfaces[k], neighbor)])]

(***************************************************************************)
(* Operations of the device graph builder.                                 *)
(***************************************************************************)
\* What _load_devices can hand to make_devices: devices of the CMDB in id
\* order, none when the query resolves to nothing.
LoadResults == {SortedSeq(S) : S \in SUBSET cmdb.devices}

MakeDevices(storage, found) ==
    /\ made' = make_devices(storage, found)
    /\ sc' = <<>>
    /\ UNCHANGED <<cmdb, held, queryVars, ifaceVars, meshVars>>

Hold(k) ==
    /\ k \in 1..Len(made)
    /\ held' = <<made[k]>>
    /\ sc' = <<>>
    /\ UNCHANGED <<cmdb, made, queryVars, ifaceVars, meshVars>>

\* The device objects a caller has at hand: the last result, its devices'
\* neighbours, and the one it kept.
TopObjects == SeqRange(made) \cup SeqRange(held)
NeighbourObjects(device) == SeqRange(device.neighbours)

SearchConnections(self, device, neighbor) ==
    /\ sc' = <<search_connections(self, device, neighbor)>>
    /\ UNCHANGED <<cmdb, made, held, queryVars, ifaceVars, meshVars>>

CmdbStates(devs, n) ==
    {[devices |-> devs, ep |-> ep] :
        ep \in {e \in SUBSET LinkUniverse(devs) : Cardinality(e) <= n}}

InitGraph ==
    /\ cmdb \in CmdbStates(AllDevices, MaxLinks)
    /\ made = <<>>
    /\ held = <<>>
    /\ sc = <<>>
    /\ IdleQuery /\ IdleIface /\ IdleMesh

NextGraph ==
    \E storage \in Storages, found \in LoadResults : MakeDevices(storage, found)

SpecGraph == InitGraph /\ [][NextGraph]_vars

InitConn ==
    /\ cmdb \in CmdbStates({1, 2}, MaxConnLinks)
    /\ made = <<>>
    /\ held = <<>>
    /\ sc = <<>>
    /\ IdleQuery /\ IdleIface /\ IdleMesh

NextConn ==
    \/ \E storage \in Storages, found \in LoadResults : MakeDevices(storage, found)
    \/ \E k \in 1..Len(made) : Hold(k)
    \/ \E device \in TopObjects :
          \E neighbor \in TopObjects \cup NeighbourObjects(device) :
              SearchConnections(1, device, neighbor)

SpecConn == InitConn /\ [][NextConn]_vars

(***************************************************************************)
(* Claims about the device graph builder.                                  *)
(***************************************************************************)
\* Device D's interfaces in the CMDB hold an endpoint on device n.
RefersTo(D, n) ==
    \E p \in cmdb.ep : IfaceOwner[p[1]] = D.id /\ IfaceOwner[p[2]] = n

\* C1: every device make_devices returns lists no neighbour device id twice,
\* and lists each device that one of its connected endpoints references
\* exactly once (and no other device), parallel links included.
C1_NeighboursListedOnce ==
    \A k \in 1..Len(made) :
        LET D == made[k]
            nb == D.neighbours
        IN  /\ D.has_neighbours
            /\ \A i, j \in 1..Len(nb) : nb[i].id = nb[j].id => i = j
            /\ \A n \in AllDevices :
                  RefersTo(D, n) <=>
                      Cardinality({i \in 1..Len(nb) : nb[i].id = n}) = 1

\* r1 reaches r2 over two parallel links and r3 over a third, and is returned
\* with two neighbours.
C1_Witness ==
    /\ {<<1, 3>>, <<2, 4>>, <<1, 5>>} \subseteq cmdb.ep
    /\ \E k \in 1..Len(made) :
          /\ made[k].id = 1
          /\ Len(made[k].neighbours) = 2

\* port lists interface `name` of device `dev` among its connected endpoints.
Lists(port, dev, name) ==
    \E k \in 1..Len(port.connected_endpoints) :
        /\ port.connected_endpoints[k].device = dev
        /\ port.connected_endpoints[k].name = name

NoDuplicates(s) == \A i, j \in 1..Len(s) : s[i] = s[j] => i = j

SameStorage(o) == o.device.storage = o.on /\ o.neighbor.storage = o.on

\* C4 as stated: for two devices of the same storage the result is exactly
\* the pairs (local, remote) of interfaces that list each other as connected
\* endpoints, each pair once.
C4_MutualPairs ==
    \A k \in 1..Len(sc) :
        LET o == sc[k]
        IN  SameStorage(o) =>
              /\ o.error = None
              /\ NoDuplicates(o.result)
              /\ SeqRange(o.result) =
                    {p \in SeqRange(o.device.interfaces) \X SeqRange(o.neighbor.interfaces) :
                        /\ Lists(p[1], o.neighbor.id, p[2].name)
                        /\ Lists(p[2], o.device.id, p[1].name)}

\* C4 as amended: the result is exactly the pairs (local, remote) where the
\* local interface lists the remote one (by the neighbor's device id and the
\* remote interface's name) as a connected endpoint, each pair once; what the
\* remote interface lists is not consulted.
C4_LocalEndpointPairs ==
    \A k \in 1..Len(sc) :
        LET o == sc[k]
        IN  SameStorage(o) =>
              /\ o.error = None
              /\ NoDuplicates(o.result)
              /\ SeqRange(o.result) =
                    {p \in SeqRange(o.device.interfaces) \X SeqRange(o.neighbor.interfaces) :
                        Lists(p[1], o.neighbor.id, p[2].name)}

\* r1 and r2 joined by the parallel links eth0-eth2 and eth1-eth3, marked on
\* both ends: the result is the two pairs (eth0, eth2) and (eth1, eth3).
C4_Witness ==
    /\ cmdb.ep = {<<1, 3>>, <<3, 1>>, <<2, 4>>, <<4, 2>>}
    /\ \E k \in 1..Len(sc) :
          /\ sc[k].device.id = 1
          /\ sc[k].neighbor.id = 2
          /\ Len(sc[k].result) = 2
          /\ sc[k].result[1][1].name = "eth0" /\ sc[k].result[1][2].name = "eth2"
          /\ sc[k].result[2][1].name = "eth1" /\ sc[k].result[2][2].name = "eth3"

\* C5: search_connections fails, returning no pair, whenever the device or
\* the neighbor belongs to another storage instance.
C5_ForeignDeviceFails ==
    \A k \in 1..Len(sc) :
        ~SameStorage(sc[k]) => sc[k].error # None /\ sc[k].result = <<>>

\* A device of this storage and a neighbor of the other one whose id and
\* interface names match the device's endpoints: the call fails all the same.
C5_Witness ==
    \E k \in 1..Len(sc) :
        /\ sc[k].device.storage = sc[k].on
        /\ sc[k].neighbor.storage # sc[k].on
        /\ \E l \in SeqRange(sc[k].device.interfaces),
              r \in SeqRange(sc[k].neighbor.interfaces) :
                  Lists(l, sc[k].neighbor.id, r.name)
        /\ sc[k].error # None

(***************************************************************************)
(* InterfaceChanges (mesh/models_converter.py).  An Optional[int] field is *)
(* <<>> for None and <<v>> for the value v.                                *)
(***************************************************************************)
MaxIfaceId == 1      \* lag, svi and subif range over 0..MaxIfaceId

Opt(S) == {<<>>} \cup {<<v>> : v \in S}
IsNotNone(x) == x # <<>>

InterfaceChangesArgs ==
    [addr : {"192.0.2.1/31"},
     lag : Opt(0..MaxIfaceId),
     lag_links_min : Opt({1}),
     svi : Opt(0..MaxIfaceId),
     subif : Opt(0..MaxIfaceId),
     vrf : Opt({"mgmt"})]

\* __post_init__ with its second test left out.
post_init_lag_svi_only(self) ==
    IF IsNotNone(self.lag) /\ IsNotNone(self.svi)
    THEN "ValueError: Cannot use LAG and SVI together"
    ELSE "ok"

\* InterfaceChanges.__post_init__: the error it raises, or "ok".
post_init(self) ==
    IF IsNotNone(self.lag) /\ IsNotNone(self.svi)
    THEN "ValueError: Cannot use LAG and SVI together"
    ELSE IF IsNotNone(self.svi) /\ IsNotNone(self.subif)
         THEN "ValueError: Cannot use Subif and SVI together"
         ELSE "ok"

Construct ==
    /\ ic_result = "none"
    /\ ic_result' = post_init(ic_args)
    /\ UNCHANGED <<ic_args, graphVars, queryVars, meshVars>>

InitIface ==
    /\ ic_args \in InterfaceChangesArgs
    /\ ic_result = "none"
    /\ IdleGraph /\ IdleQuery /\ IdleMesh

NextIface == Construct

SpecIface == InitIface /\ [][NextIface]_vars

\* C2 as stated: construction fails exactly when more than one of lag, svi
\* and subif is set.
C2_AtMostOneOfThree ==
    ic_result # "none" =>
        (ic_result # "ok" <=>
            Cardinality({f \in {"lag", "svi", "subif"} : IsNotNone(ic_args[f])}) > 1)

\* C2 as amended: construction fails exactly when svi is set together with
\* lag or with subif; lag together with subif (svi unset) is accepted.
C2_SviExcludesLagAndSubif ==
    ic_result # "none" =>
        (ic_result # "ok" <=>
            /\ IsNotNone(ic_args.svi)
            /\ IsNotNone(ic_args.lag) \/ IsNotNone(ic_args.subif))

\* svi and subif set, lag unset: construction has failed.
C2_Witness ==
    /\ IsNotNone(ic_args.svi) /\ IsNotNone(ic_args.subif) /\ ~IsNotNone(ic_args.lag)
    /\ ic_result = "ValueError: Cannot use Subif and SVI together"

(***************************************************************************)
(* _load_devices (adapters/netbox/common/storage_base.py).  A string is    *)
(* the sequence of its characters.                                         *)
(***************************************************************************)
MaxTokLen == 2       \* length of a query token built from Chars
MaxTokens == 2       \* tokens in a query

Chars == {"s", "1", "."}
Whitespace == {" "}

\* Device names the CMDB holds: "s1.s", "s11.s", "1s1.1", "s1".
Inventory ==
    << <<"s", "1", ".", "s">>,
       <<"s", "1", "1", ".", "s">>,
       <<"1", "s", "1", ".", "1">>,
       <<"s", "1">> >>

RECURSIVE StringsOver(_, _)
StringsOver(alphabet, n) ==
    IF n = 0 THEN {<<>>}
    ELSE LET shorter == StringsOver(alphabet, n - 1)
         IN  shorter \cup {Append(w, c) : w \in shorter, c \in alphabet}

\* Tokens a caller may pass: every string over Chars up to MaxTokLen, and
\* three tokens padded with whitespace.
Tokens ==
    StringsOver(Chars, MaxTokLen)
        \cup {<<" ", "s", "1">>, <<"s", "1", " ">>, <<"s", "1", ".", " ">>}

RECURSIVE SeqsOver(_, _)
SeqsOver(S, n) ==
    IF n = 0 THEN {<<>>}
    ELSE LET shorter == SeqsOver(S, n - 1)
         IN  shorter \cup {Append(q, t) : q \in shorter, t \in S}

Queries == SeqsOver(Tokens, MaxTokens)

\* Python's `sub in name`.
Contains(name, sub) ==
    \E i \in 0..(Len(name) - Len(sub)) : SubSeq(name, i + 1, i + Len(sub)) = sub

\* Python's str.strip().
RECURSIVE LStrip(_)
LStrip(w) == IF w # <<>> /\ Head(w) \in Whitespace THEN LStrip(Tail(w)) ELSE w
RECURSIVE RStrip(_)
RStrip(w) ==
    IF w # <<>> /\ w[Len(w)] \in Whitespace THEN RStrip(SubSeq(w, 1, Len(w) - 1)) ELSE w
Strip(w) == RStrip(LStrip(w))

\* add_dot that appends nothing.
add_dot_never(raw_query) == raw_query

\* _hostname_dot_hack.add_dot
add_dot(raw_query) ==
    IF "." \notin SeqRange(raw_query) THEN Append(raw_query, ".") ELSE raw_query

_hostname_dot_hack(query) == [i \in 1..Len(query) |-> add_dot(query[i])]

_match_query(query, name) ==
    \E i \in 1..Len(query) : Contains(name, Strip(query[i]))

\* The server's name__ic filter: names that contain one of the values.
dcim_all_devices_ic(globs) ==
    LET Hit(name) == \E i \in 1..Len(globs) : Contains(name, globs[i])
    IN  SelectSeq(Inventory, Hit)

\* The server's name__ie filter: names equal to one of the values.
dcim_all_devices_ie(globs) ==
    LET Hit(name) == \E i \in 1..Len(globs) : name = globs[i]
    IN  SelectSeq(Inventory, Hit)

_load_devices(exact_host_filter, query) ==
    IF query = <<>> THEN <<>>
    ELSE IF exact_host_filter THEN dcim_all_devices_ie(query)
    ELSE LET hacked == _hostname_dot_hack(query)
             Keep(name) == _match_query(hacked, name)
         IN  SelectSeq(dcim_all_devices_ic(hacked), Keep)

LoadDevices ==
    /\ q_result = <<>>
    /\ q_result' = <<_load_devices(q_exact, q_query)>>
    /\ q_query' = IF q_query = <<>> \/ q_exact THEN q_query
                  ELSE _hostname_dot_hack(q_query)
    /\ UNCHANGED <<q_exact, q_orig, graphVars, ifaceVars, meshVars>>

InitQuery ==
    /\ q_exact \in BOOLEAN
    /\ q_orig \in Queries
    /\ q_query = q_orig
    /\ q_result = <<>>
    /\ IdleGraph /\ IdleIface /\ IdleMesh

NextQuery == LoadDevices

SpecQuery == InitQuery /\ [][NextQuery]_vars

IsBare(token) == "." \notin SeqRange(token)

\* token occurs in name with the label separator right after it.
FollowedByDot(token, name) ==
    \E p \in 1..Len(name) :
        /\ p + Len(token) <= Len(name)
        /\ \A k \in 1..Len(token) : name[p + k - 1] = token[k]
        /\ name[p + Len(token)] = "."

\* C3: in substring mode every returned device is accounted for by a token
\* of the query, and a bare (dot-free) token accounts for a device only if
\* the token is immediately followed by "." in the device's name; so the
\* query "s1" never returns "s11.s".
C3_BareTokenAtLabelBoundary ==
    (~q_exact /\ q_result # <<>>) =>
        /\ \A n \in SeqRange(q_result[1]) :
              \E i \in 1..Len(q_orig) :
                  IF IsBare(q_orig[i]) THEN FollowedByDot(q_orig[i], n)
                  ELSE Contains(n, Strip(q_orig[i]))
        /\ (q_orig = << <<"s", "1">> >>) =>
              <<"s", "1", "1", ".", "s">> \notin SeqRange(q_result[1])

\* The query "s1" in substring mode has returned "s1.s" and "1s1.1" and not
\* "s11.s".
C3_Witness ==
    /\ ~q_exact
    /\ q_orig = << <<"s", "1">> >>
    /\ q_result = << << <<"s", "1", ".", "s">>, <<"1", "s", "1", ".", "1">> >> >>

(***************************************************************************)
(* MeshExecutor (mesh/executor.py).  A DTO is a function from its field    *)
(* names to <<>> (the field is not set) or <<v>> (it is set to v).         *)
(***************************************************************************)
MaxRules == 2        \* rules a registry lookup returns

PeerFields == {"addr", "asnum", "vrf", "description", "import_policy",
               "export_policy", "families", "group"}
GlobalFields == {"asnum", "router_id", "families"}
\* Fields whose values merge concatenates instead of overwriting.
AccumulatingFields == {"families"}

Dto(fields, set) == [f \in fields |-> IF f \in DOMAIN set THEN <<set[f]>> ELSE <<>>]
PeerDTO == Dto(PeerFields, <<>>)
GlobalOptionsDTO == Dto(GlobalFields, <<>>)
GlobalOptionsDTO_default == Dto(GlobalFields, [router_id |-> "0.0.0.0"])

\* merge(a, b): the right argument wins a field both set, except that the
\* values of an accumulating field are united.
merge(a, b) ==
    [f \in DOMAIN a |->
        IF f \in AccumulatingFields /\ a[f] # <<>> /\ b[f] # <<>>
        THEN <<a[f][1] \cup b[f][1]>>
        ELSE IF b[f] # <<>> THEN b[f] ELSE a[f]]

merge3(a, b, c) == merge(merge(a, b), c)

\* The device execute_for runs for, its neighbours and the fleet.
Device == "r1.example.com"
Neighbours == <<"r2.example.com", "r3.example.com">>
AllFqdns == <<"r1.example.com", "r2.example.com", "r3.example.com", "r4.example.com">>
IndirectTargets == {"r2.example.com", "r4.example.com"}

\* What a rule's handler writes into the far end's peer object and into the
\* session.
DirectHandlers ==
    << [peer |-> Dto(PeerFields, [addr |-> "10.0.0.1", asnum |-> 65001,
                                  families |-> {"ipv4"}]),
        session |-> PeerDTO],
       [peer |-> Dto(PeerFields, [asnum |-> 65002, vrf |-> "mgmt",
                                  import_policy |-> "IMPORT"]),
        session |-> Dto(PeerFields, [families |-> {"ipv6"}])],
       [peer |-> Dto(PeerFields, [description |-> "spine", asnum |-> 65003,
                                  group |-> [name |-> "SPINES", remote_as |-> 65010]]),
        session |-> Dto(PeerFields, [asnum |-> 65004, export_policy |-> "EXPORT"])] >>

IndirectHandlers ==
    << [peer |-> Dto(PeerFields, [addr |-> "10.0.0.9", asnum |-> 65009]),
        session |-> Dto(PeerFields, [families |-> {"ipv4"}])],
       [peer |-> Dto(PeerFields, [vrf |-> "mgmt",
                                  group |-> [name |-> "RR", remote_as |-> 65020]]),
        session |-> PeerDTO] >>

GlobalHandlers ==
    << Dto(GlobalFields, [asnum |-> 65001, families |-> {"ipv4"}]),
       Dto(GlobalFields, [asnum |-> 65002]),
       Dto(GlobalFields, [router_id |-> "10.255.0.1", families |-> {"ipv6"}]) >>

PeerRule(order, far, h) ==
    [direct_order |-> order,
     name_left |-> IF order THEN Device ELSE far,
     name_right |-> IF order THEN far ELSE Device,
     handler |-> h]

DirectRules ==
    {PeerRule(o, far, h) : o \in BOOLEAN, far \in SeqRange(Neighbours),
                           h \in 1..Len(DirectHandlers)}
IndirectRules ==
    {PeerRule(o, far, h) : o \in BOOLEAN, far \in IndirectTargets,
                           h \in 1..Len(IndirectHandlers)}
GlobalRules == {[handler |-> h] : h \in 1..Len(GlobalHandlers)}

\* An insertion-ordered dict: a sequence of entries with distinct keys.
DictHas(d, key) == \E k \in 1..Len(d) : d[k].key = key
DictGet(d, key) == d[CHOOSE k \in 1..Len(d) : d[k].key = key].value
DictSet(d, key, value) ==
    IF DictHas(d, key)
    THEN [k \in 1..Len(d) |-> IF d[k].key = key THEN [key |-> key, value |-> value]
                              ELSE d[k]]
    ELSE Append(d, [key |-> key, value |-> value])

\* The name of the far end: name_right in direct order, name_left otherwise.
FarName(rule) == IF rule.direct_order THEN rule.name_right ELSE rule.name_left

\* One iteration of _execute_direct that stores the rule's output in place
\* of what the dict held.
direct_step_overwrite(peers, rule) ==
    LET h == DirectHandlers[rule.handler]
    IN  DictSet(peers, FarName(rule), merge3(PeerDTO, h.peer, h.session))

\* One iteration of _execute_direct.
direct_step(peers, rule) ==
    LET h == DirectHandlers[rule.handler]
        fqdn == FarName(rule)
        neighbor_result == IF DictHas(peers, fqdn) THEN DictGet(peers, fqdn) ELSE PeerDTO
    IN  DictSet(peers, fqdn, merge3(neighbor_result, h.peer, h.session))

\* What storage.make_devices(name) can return: nothing, or the device.
StorageAnswers(name) == {<<>>, <<name>>}

\* One iteration of _execute_indirect that passes over a rule whose far end
\* the storage does not resolve.
indirect_step_skipping(peers, rule, found) ==
    IF found = <<>> THEN [pc |-> "indirect", peers |-> peers]
    ELSE LET h == IndirectHandlers[rule.handler]
             fqdn == found[1]
             neighbor_result == IF DictHas(peers, fqdn) THEN DictGet(peers, fqdn)
                                ELSE PeerDTO
         IN  [pc |-> "indirect",
              peers |-> DictSet(peers, fqdn, merge3(neighbor_result, h.peer, h.session))]

\* One iteration of _execute_indirect; found is what make_devices returned.
\* Indexing an empty list raises IndexError, which ends execute_for.
indirect_step(peers, rule, found) ==
    IF found = <<>> THEN [pc |-> "failed", peers |-> peers]
    ELSE LET h == IndirectHandlers[rule.handler]
             fqdn == found[1]
             neighbor_result == IF DictHas(peers, fqdn) THEN DictGet(peers, fqdn)
                                ELSE PeerDTO
         IN  [pc |-> "indirect",
              peers |-> DictSet(peers, fqdn, merge3(neighbor_result, h.peer, h.session))]

ASN(n) == <<"ASN", n>>

\* MeshExecutor._to_bgp_peer
_to_bgp_peer(peer) ==
    [name |-> <<>>,
     description |-> "",
     family |-> <<>>,
     options |-> <<>>,
     hostname |-> "",
     remote_as |-> <<>>,
     vrf_name |-> <<>>,
     export_policy |-> <<>>,
     import_policy |-> <<>>,
     update_source |-> <<>>,
     addr |-> peer.addr,
     group |-> IF peer.group # <<>>
               THEN <<[name |-> peer.group[1].name,
                       internal_name |-> "",
                       update_source |-> "",
                       remote_as |-> ASN(peer.group[1].remote_as),
                       description |-> "",
                       connect_retry |-> FALSE]>>
               ELSE <<>>]

\* The peers of one pass, converted: execute_for's two append loops.
converted(peers) == [k \in 1..Len(peers) |-> _to_bgp_peer(peers[k].value)]

\* _execute_globals' return with the default on the right of the merge.
globals_return_default_last(opts) == merge(opts, GlobalOptionsDTO_default)

\* _execute_globals' return.
globals_return(opts) == merge(GlobalOptionsDTO_default, opts)

Tags(pass, peers) == [k \in 1..Len(peers) |-> [pass |-> pass, fqdn |-> peers[k].key]]

\* The entries of the call log: a registry lookup that returned k rules, and
\* the invocation of the handler of the k-th rule it returned.
Lookup(pass, k) == [pass |-> pass, ev |-> "lookup", k |-> k]
Handler(pass, k) == [pass |-> pass, ev |-> "handler", k |-> k]

(***************************************************************************)
(* execute_for, one action per lookup, rule and return.                    *)
(***************************************************************************)
ExecuteFor ==
    /\ pc = "idle"
    /\ \E found \in SeqsOver(DirectRules, MaxRules) :
          /\ rules' = found
          /\ calls' = Append(calls, Lookup("direct", Len(found)))
    /\ idx' = 1
    /\ pc' = "direct"
    /\ UNCHANGED <<neighbor_peers, connected_peers, global_opts, result, origin,
                   unresolved, returned, graphVars, queryVars, ifaceVars>>

DirectRule ==
    /\ pc = "direct" /\ idx <= Len(rules)
    /\ neighbor_peers' = direct_step(neighbor_peers, rules[idx])
    /\ calls' = Append(calls, Handler("direct", idx))
    /\ idx' = idx + 1
    /\ UNCHANGED <<pc, rules, connected_peers, global_opts, result, origin,
                   unresolved, returned, graphVars, queryVars, ifaceVars>>

DirectReturn ==
    /\ pc = "direct" /\ idx > Len(rules)
    /\ result' = result \o converted(neighbor_peers)
    /\ origin' = origin \o Tags("direct", neighbor_peers)
    /\ pc' = "direct_conv"
    /\ UNCHANGED <<calls, rules, idx, neighbor_peers, connected_peers, global_opts,
                   unresolved, returned, graphVars, queryVars, ifaceVars>>

IndirectLookup ==
    /\ pc = "direct_conv"
    /\ \E found \in SeqsOver(IndirectRules, MaxRules) :
          /\ rules' = found
          /\ calls' = Append(calls, Lookup("indirect", Len(found)))
    /\ idx' = 1
    /\ neighbor_peers' = <<>>
    /\ pc' = "indirect"
    /\ UNCHANGED <<connected_peers, global_opts, result, origin,
                   unresolved, returned, graphVars, queryVars, ifaceVars>>

IndirectRule ==
    /\ pc = "indirect" /\ idx <= Len(rules)
    /\ \E found \in StorageAnswers(FarName(rules[idx])) :
          LET step == indirect_step(connected_peers, rules[idx], found)
          IN  /\ unresolved' = (unresolved \/ found = <<>>)
              /\ pc' = step.pc
              /\ connected_peers' = step.peers
              /\ calls' = IF found = <<>> THEN calls
                          ELSE Append(calls, Handler("indirect", idx))
    /\ idx' = idx + 1
    /\ UNCHANGED <<rules, neighbor_peers, global_opts, result, origin,
                   returned, graphVars, queryVars, ifaceVars>>

\* The second append loop of execute_for, leaving out a connected peer whose
\* fqdn the direct pass already produced.
IndirectReturnMerged ==
    /\ pc = "indirect" /\ idx > Len(rules)
    /\ LET Fresh(e) == \A k \in 1..Len(origin) : origin[k].fqdn # e.key
       IN  result' = result \o converted(SelectSeq(connected_peers, Fresh))
    /\ origin' = origin \o Tags("indirect", connected_peers)
    /\ pc' = "indirect_conv"
    /\ UNCHANGED <<calls, rules, idx, neighbor_peers, connected_peers, global_opts,
                   unresolved, returned, graphVars, queryVars, ifaceVars>>

IndirectReturn ==
    /\ pc = "indirect" /\ idx > Len(rules)
    /\ result' = result \o converted(connected_peers)
    /\ origin' = origin \o Tags("indirect", connected_peers)
    /\ pc' = "indirect_conv"
    /\ UNCHANGED <<calls, rules, idx, neighbor_peers, connected_peers, global_opts,
                   unresolved, returned, graphVars, queryVars, ifaceVars>>

GlobalsLookup ==
    /\ pc = "indirect_conv"
    /\ \E found \in SeqsOver(GlobalRules, MaxRules) :
          /\ rules' = found
          /\ calls' = Append(calls, Lookup("global", Len(found)))
    /\ idx' = 1
    /\ connected_peers' = <<>>
    /\ global_opts' = GlobalOptionsDTO
    /\ pc' = "globals"
    /\ UNCHANGED <<neighbor_peers, result, origin, unresolved, returned,
                   graphVars, queryVars, ifaceVars>>

\* One iteration of _execute_globals that walks the rules from the last to
\* the first.
GlobalRuleReversed ==
    /\ pc = "globals" /\ idx <= Len(rules)
    /\ LET k == Len(rules) + 1 - idx
       IN  /\ global_opts' = merge(global_opts, GlobalHandlers[rules[k].handler])
           /\ calls' = Append(calls, Handler("global", k))
    /\ idx' = idx + 1
    /\ UNCHANGED <<pc, rules, neighbor_peers, connected_peers, result, origin,
                   unresolved, returned, graphVars, queryVars, ifaceVars>>

GlobalRule ==
    /\ pc = "globals" /\ idx <= Len(rules)
    /\ global_opts' = merge(global_opts, GlobalHandlers[rules[idx].handler])
    /\ calls' = Append(calls, Handler("global", idx))
    /\ idx' = idx + 1
    /\ UNCHANGED <<pc, rules, neighbor_peers, connected_peers, result, origin,
                   unresolved, returned, graphVars, queryVars, ifaceVars>>

Return ==
    /\ pc = "globals" /\ idx > Len(rules)
    /\ returned' = <<[global_options |-> globals_return(global_opts),
                      peers |-> result]>>
    /\ pc' = "done"
    /\ UNCHANGED <<calls, rules, idx, neighbor_peers, connected_peers, global_opts,
                   result, origin, unresolved, graphVars, queryVars, ifaceVars>>

InitMesh == IdleMesh /\ IdleGraph /\ IdleQuery /\ IdleIface

NextMesh ==
    \/ ExecuteFor
    \/ DirectRule
    \/ DirectReturn
    \/ IndirectLookup
    \/ IndirectRule
    \/ IndirectReturn
    \/ GlobalsLookup
    \/ GlobalRule
    \/ Return

SpecMesh == InitMesh /\ [][NextMesh]_vars

(***************************************************************************)
(* Claims about the mesh executor.                                         *)
(***************************************************************************)
RECURSIVE FirstOccurrences(_)
FirstOccurrences(s) ==
    IF s = <<>> THEN <<>>
    ELSE LET init == FirstOccurrences(SubSeq(s, 1, Len(s) - 1))
             last == s[Len(s)]
         IN  IF last \in SeqRange(init) THEN init ELSE Append(init, last)

MaxOf(S) == CHOOSE x \in S : \A y \in S : y <= x

\* The far end of a rule: the side that is not the device.
FarEndOf(rule) == CHOOSE n \in {rule.name_left, rule.name_right} : n # Device
FarEnds(rs) == [k \in 1..Len(rs) |-> FarEndOf(rs[k])]

\* What a peer rule's handler set for field f, the session's value counting
\* as the later one.
RuleSets(h, f) == h.peer[f] # <<>> \/ h.session[f] # <<>>
RuleScalar(h, f) == IF h.session[f] # <<>> THEN h.session[f] ELSE h.peer[f]
RuleMembers(h, f) ==
    (IF h.peer[f] # <<>> THEN h.peer[f][1] ELSE {})
        \cup (IF h.session[f] # <<>> THEN h.session[f][1] ELSE {})

\* The rules of the current pass already executed.
Executed == SubSeq(rules, 1, idx - 1)

\* C6 as stated: every field of the returned global options has the value of
\* the last rule, in match order, that set it, and the default's value when
\* no rule set it; asnum=65001 then asnum=65002 gives asnum=65002.
C6_LastRuleWinsEveryField ==
    pc = "done" =>
        \A f \in GlobalFields :
            LET setters == {i \in 1..Len(rules) :
                               GlobalHandlers[rules[i].handler][f] # <<>>}
            IN  returned[1].global_options[f] =
                    IF setters = {} THEN GlobalOptionsDTO_default[f]
                    ELSE GlobalHandlers[rules[MaxOf(setters)].handler][f]

\* C6 as amended: every field that is not accumulating has the value of the
\* last rule, in match order, that set it, and the default's value when no
\* rule set it; an accumulating field holds the union of the values the
\* default and the rules set.
C6_LastRuleWinsScalarFields ==
    pc = "done" =>
        \A f \in GlobalFields :
            LET setters == {i \in 1..Len(rules) :
                               GlobalHandlers[rules[i].handler][f] # <<>>}
                got == returned[1].global_options[f]
            IN  IF setters = {} THEN got = GlobalOptionsDTO_default[f]
                ELSE IF f \in AccumulatingFields
                THEN got = <<UNION ({GlobalHandlers[rules[i].handler][f][1] : i \in setters}
                                \cup {GlobalOptionsDTO_default[f][k] :
                                         k \in 1..Len(GlobalOptionsDTO_default[f])})>>
                ELSE got = GlobalHandlers[rules[MaxOf(setters)].handler][f]

\* A rule setting asnum=65001 followed by one setting asnum=65002: the
\* returned global options hold asnum=65002 and the default router id.
C6_Witness ==
    /\ pc = "done"
    /\ rules = <<[handler |-> 1], [handler |-> 2]>>
    /\ returned[1].global_options["asnum"] = <<65002>>
    /\ returned[1].global_options["router_id"] = <<"0.0.0.0">>

IsDirectTag(t) == t.pass = "direct"

\* C7: the peers list is the direct pass's peers followed by the indirect
\* pass's, one per distinct far-end fqdn of each pass, an fqdn of both passes
\* giving two entries.
C7_DirectThenIndirect ==
    /\ pc = "direct_conv" =>
          /\ origin = [k \in 1..Len(FirstOccurrences(FarEnds(rules))) |->
                          [pass |-> "direct",
                           fqdn |-> FirstOccurrences(FarEnds(rules))[k]]]
          /\ Len(result) = Len(origin)
    /\ pc = "indirect_conv" =>
          /\ origin = SelectSeq(origin, IsDirectTag)
                        \o [k \in 1..Len(FirstOccurrences(FarEnds(rules))) |->
                               [pass |-> "indirect",
                                fqdn |-> FirstOccurrences(FarEnds(rules))[k]]]
          /\ Len(result) = Len(origin)
    /\ pc = "done" =>
          /\ returned[1].peers = result
          /\ Len(result) = Len(origin)
          /\ NoDuplicates(origin)
          /\ \A a, b \in 1..Len(origin) :
                (a < b /\ origin[a].pass = "indirect") => origin[b].pass = "indirect"

\* r2 is the far end of a direct rule and of an indirect rule: the returned
\* list holds an entry for each, the direct one first.
C7_Witness ==
    /\ pc = "done"
    /\ \E a, b \in 1..Len(returned[1].peers) :
          /\ a < b
          /\ origin[a] = [pass |-> "direct", fqdn |-> "r2.example.com"]
          /\ origin[b] = [pass |-> "indirect", fqdn |-> "r2.example.com"]

\* C8: once the storage has returned no device for an indirect rule,
\* execute_for has failed and returns nothing.
C8_UnresolvedIsFatal == unresolved => (pc = "failed" /\ returned = <<>>)

\* The second indirect rule, its far end on the left, is unresolved after the
\* first one resolved and after the direct pass produced peers.
C8_Witness ==
    /\ unresolved /\ pc = "failed"
    /\ Len(rules) = 2 /\ idx = 3 /\ ~rules[2].direct_order
    /\ connected_peers # <<>> /\ result # <<>>
    /\ returned = <<>>

\* The entries of the direct pass's dict whose far end is fqdn.
DirectSetters(fqdn, f) ==
    {i \in 1..Len(Executed) :
        /\ FarEndOf(Executed[i]) = fqdn
        /\ RuleSets(DirectHandlers[Executed[i].handler], f)}

OnePeerPerFarEnd ==
    /\ {neighbor_peers[k].key : k \in 1..Len(neighbor_peers)} = SeqRange(FarEnds(Executed))
    /\ \A i, j \in 1..Len(neighbor_peers) :
          neighbor_peers[i].key = neighbor_peers[j].key => i = j

\* C9 as stated: the direct pass holds one PeerDTO per distinct far-end
\* fqdn, and each of its fields has the value of the last rule for that
\* neighbour that set it (unset when none did).
C9_LastRuleWinsEveryField ==
    pc \in {"direct", "direct_conv"} =>
        /\ OnePeerPerFarEnd
        /\ \A k \in 1..Len(neighbor_peers) : \A f \in PeerFields :
              LET setters == DirectSetters(neighbor_peers[k].key, f)
              IN  neighbor_peers[k].value[f] =
                      IF setters = {} THEN <<>>
                      ELSE RuleScalar(DirectHandlers[Executed[MaxOf(setters)].handler], f)

\* C9 as amended: as stated for every field that is not accumulating; an
\* accumulating field holds the union of the values the rules for that
\* neighbour set.
C9_LastRuleWinsScalarFields ==
    pc \in {"direct", "direct_conv"} =>
        /\ OnePeerPerFarEnd
        /\ \A k \in 1..Len(neighbor_peers) : \A f \in PeerFields :
              LET setters == DirectSetters(neighbor_peers[k].key, f)
                  got == neighbor_peers[k].value[f]
              IN  IF setters = {} THEN got = <<>>
                  ELSE IF f \in AccumulatingFields
                  THEN got = <<UNION {RuleMembers(DirectHandlers[Executed[i].handler], f) :
                                         i \in setters}>>
                  ELSE got = RuleScalar(DirectHandlers[Executed[MaxOf(setters)].handler], f)

\* Two rules for r2, in opposite orders: the first sets addr and asnum, the
\* second sets asnum and vrf; the PeerDTO keeps the first's addr and has the
\* second's asnum.
C9_Witness ==
    /\ pc = "direct_conv"
    /\ rules = <<PeerRule(TRUE, "r2.example.com", 1), PeerRule(FALSE, "r2.example.com", 2)>>
    /\ Len(neighbor_peers) = 1
    /\ neighbor_peers[1].value["addr"] = <<"10.0.0.1">>
    /\ neighbor_peers[1].value["asnum"] = <<65002>>
    /\ neighbor_peers[1].value["vrf"] = <<"mgmt">>

\* The peer record p carries the data of the merged PeerDTO dto.
Carries(p, dto) ==
    /\ p.addr = dto["addr"]
    /\ p.remote_as = (IF dto["asnum"] # <<>> THEN <<ASN(dto["asnum"][1])>> ELSE <<>>)
    /\ p.vrf_name = dto["vrf"]
    /\ p.description = (IF dto["description"] # <<>> THEN dto["description"][1] ELSE "")
    /\ p.import_policy = dto["import_policy"]
    /\ p.export_policy = dto["export_policy"]

\* C10: every peer record of the list carries the address, the ASN (as
\* remote AS), the VRF, the description and the policies of the merged
\* PeerDTO it was converted from.
C10_PeersCarryDtoData ==
    /\ pc = "direct_conv" =>
          \A k \in 1..Len(neighbor_peers) : Carries(result[k], neighbor_peers[k].value)
    /\ pc = "indirect_conv" =>
          \A k \in 1..Len(connected_peers) :
              Carries(result[Len(result) - Len(connected_peers) + k],
                      connected_peers[k].value)

(***************************************************************************)
(* The order of the handler invocations.                                   *)
(***************************************************************************)
Passes == {"direct", "indirect", "global"}

\* The positions, in the order of invocation, of the rules of a pass whose
\* handler was invoked, and the number of rules the pass's lookup returned.
Invoked(pass) ==
    LET IsCall(c) == c.pass = pass /\ c.ev = "handler"
        hs == SelectSeq(calls, IsCall)
    IN  [i \in 1..Len(hs) |-> hs[i].k]
LookupsOf(pass) ==
    LET IsLookup(c) == c.pass = pass /\ c.ev = "lookup"
    IN  SelectSeq(calls, IsLookup)
LookedUp(pass) == LookupsOf(pass) # <<>>
Found(pass) == IF LookedUp(pass) THEN LookupsOf(pass)[1].k ELSE 0
UpTo(m) == [i \in 1..m |-> i]

\* The accumulators a pass holds after the rules rs, in order.
RECURSIVE FoldDirect(_)
FoldDirect(rs) ==
    IF rs = <<>> THEN <<>>
    ELSE direct_step(FoldDirect(SubSeq(rs, 1, Len(rs) - 1)), rs[Len(rs)])
RECURSIVE FoldIndirect(_)
FoldIndirect(rs) ==
    IF rs = <<>> THEN <<>>
    ELSE indirect_step(FoldIndirect(SubSeq(rs, 1, Len(rs) - 1)), rs[Len(rs)],
                       <<FarName(rs[Len(rs)])>>).peers
RECURSIVE FoldGlobals(_)
FoldGlobals(rs) ==
    IF rs = <<>> THEN GlobalOptionsDTO
    ELSE merge(FoldGlobals(SubSeq(rs, 1, Len(rs) - 1)),
               GlobalHandlers[rs[Len(rs)].handler])

\* While a pass runs, the handlers invoked are those of the rules before
\* idx, and the accumulator holds the outputs of exactly those rules.
MergedBeforeNext ==
    /\ pc = "direct" =>
          Invoked("direct") = UpTo(idx - 1) /\ neighbor_peers = FoldDirect(Executed)
    /\ pc = "indirect" =>
          Invoked("indirect") = UpTo(idx - 1) /\ connected_peers = FoldIndirect(Executed)
    /\ pc = "globals" =>
          Invoked("global") = UpTo(idx - 1) /\ global_opts = FoldGlobals(Executed)

\* Every direct rule's handler is invoked before any indirect rule's.
DirectBeforeIndirect ==
    \A i, j \in 1..Len(calls) :
        /\ calls[i].ev = "handler" /\ calls[i].pass = "direct"
        /\ calls[j].ev = "handler" /\ calls[j].pass = "indirect"
        => i < j

\* C11 as stated: when the call has ended, the handler of every rule a
\* lookup returned was invoked exactly once and in the returned order; each
\* output is merged before the next handler runs; direct handlers precede
\* indirect ones.
C11_EveryRuleInvokedOnce ==
    /\ pc \in {"done", "failed"} =>
          \A pass \in Passes : Invoked(pass) = UpTo(Found(pass))
    /\ MergedBeforeNext
    /\ DirectBeforeIndirect

\* C11, amended: the handlers invoked in a pass are always those of the
\* first rules its lookup returned, once each and in the returned order;
\* when the call returns a result they are all the rules of all three
\* passes; when an unresolved indirect target ends the call, they are all
\* the direct rules and the indirect rules before the unresolved one, and
\* no lookup of global rules is made.  Each output is merged before the next
\* handler runs, and direct handlers precede indirect ones.
C11_InvokedOnceUnlessAborted ==
    /\ \A pass \in Passes :
          /\ Len(LookupsOf(pass)) <= 1
          /\ \E m \in 0..Found(pass) : Invoked(pass) = UpTo(m)
    /\ pc = "done" =>
          \A pass \in Passes : LookedUp(pass) /\ Invoked(pass) = UpTo(Found(pass))
    /\ pc = "failed" =>
          /\ Invoked("direct") = UpTo(Found("direct"))
          /\ idx - 1 \in 1..Found("indirect")
          /\ Invoked("indirect") = UpTo(idx - 2)
          /\ ~LookedUp("global")
    /\ MergedBeforeNext
    /\ DirectBeforeIndirect

\* A call that returned after two rules in each pass.
C11_Witness ==
    /\ pc = "done"
    /\ \A pass \in Passes : Found(pass) = 2 /\ Invoked(pass) = <<1, 2>>

====
